---- MODULE Spec2Model ----
(***************************************************************************)
(* Model of libafl_qemu/src/snapshot.rs: QemuSnapshotHelper (page store,   *)
(* access cache, dirty queue, pending-mapping ledger), the write and       *)
(* syscall hooks, and the emulator calls the helper makes.                 *)
(***************************************************************************)
EXTENDS Integers, Sequences, FiniteSets, TLC

(* ------------------------------ constants ------------------------------ *)

SNAPSHOT_PAGE_SIZE == 4096

\* Stand-in for u64::MAX.  Every address of the model is far below it and,
\* like u64::MAX, its low twelve bits are all ones.
U64_MAX == 2147483647

SYS_mmap == 9
SYS_mprotect == 10
SYS_mremap == 25
\* A syscall the post-syscall hook does not dispatch on (brk).
SYS_brk == 12

(* ------------------------------- bounds -------------------------------- *)

\* Pages of the modelled address space: 0, 4096, ..., (NumPages-1)*4096.
NumPages == 4
\* Byte values 0..MaxByte.
MaxByte == 1
\* Longest dirty queue the write hooks let grow.
MaxDirty == 2
\* Longest dirty queue direct page_access calls let grow.
MaxQueue == 6
\* Most intervals the pending-mapping ledger holds.
MaxLedger == 2
\* pre_exec calls counted by the lifecycle counter.
MaxExec == 3

PageAddrs == {k * SNAPSHOT_PAGE_SIZE : k \in 0..(NumPages - 1)}
Bytes == 0..MaxByte
\* Offsets inside a page whose bytes the model tracks: first and last byte.
Offs == {0, SNAPSHOT_PAGE_SIZE - 1}
MemAddrs == {p + o : p \in PageAddrs, o \in Offs}

\* Option<T>: None is the empty sequence, Some(x) the one-element sequence.
None == <<>>
Some(x) == <<x>>
IsSome(o) == Len(o) = 1
Unwrap(o) == o[1]

\* x & (SNAPSHOT_PAGE_SIZE - 1)
MaskLow(x) == x % SNAPSHOT_PAGE_SIZE
\* The page-aligned address of the page that contains x.
PageOf(x) == x - (x % SNAPSHOT_PAGE_SIZE)

(* ----------------------- crate::emu::MmapPerms ------------------------- *)

\* MmapPerms: the seven non-empty combinations of PROT_READ (1),
\* PROT_WRITE (2) and PROT_EXEC (4).
MmapPerms == 1..7
\* MmapPerms::try_from(a2 as i32): Ok for a known permission set.
MmapPermsTryFrom(a) == IF a \in MmapPerms THEN Some(a) ELSE None
\* MmapPerms::is_w
is_w(p) == (p \div 2) % 2 = 1

(* ------------------------- emulator memory maps ------------------------ *)

LayoutA ==
  << [start |-> 4096, end |-> 12288, flags |-> 3, is_priv |-> TRUE],
     [start |-> 12288, end |-> 16384, flags |-> 5, is_priv |-> FALSE] >>
LayoutB ==
  << [start |-> 0, end |-> 4096, flags |-> 3, is_priv |-> TRUE],
     [start |-> 4096, end |-> 8192, flags |-> 1, is_priv |-> TRUE] >>
Layouts == {LayoutA, LayoutB}

VARIABLES
  access_cache,      \* [u64; 4], slots 0..3
  access_cache_idx,  \* usize
  pages,             \* HashMap<u64, SnapshotPageInfo>
  dirty,             \* Vec<u64>
  brk,               \* u64
  new_maps,          \* IntervalTree<u64, Option<MmapPerms>>, as a sequence
  empty,             \* bool
  mappings,          \* emulator.mappings()
  mem,               \* emulator memory at the tracked addresses
  emu_brk,           \* emulator break pointer
  calls,             \* emulator calls made by the last operation
  walks,             \* per ledger interval, what the last reset_maps did
  last,              \* the last operation and its arguments
  marked,            \* pages passed to page_access since the last reset
  written,           \* addresses stored to and reported since snapshot/reset
  events,            \* decoded mmap/mprotect events since snapshot/reset
  clean,             \* a reset has run and no snapshot since
  nexec              \* number of pre_exec calls so far (capped)

vars == << access_cache, access_cache_idx, pages, dirty, brk, new_maps, empty,
           mappings, mem, emu_brk, calls, walks, last, marked, written,
           events, clean, nexec >>

\* The helper as one value (struct QemuSnapshotHelper).
Self ==
  [ access_cache |-> access_cache, access_cache_idx |-> access_cache_idx,
    pages |-> pages, dirty |-> dirty, brk |-> brk, new_maps |-> new_maps,
    empty |-> empty ]

\* QemuSnapshotHelper::new
new ==
  [ access_cache |-> [i \in 0..3 |-> U64_MAX], access_cache_idx |-> 0,
    pages |-> <<>>, dirty |-> <<>>, brk |-> 0, new_maps |-> <<>>,
    empty |-> TRUE ]

(* ------------------------------- snapshot ------------------------------ *)

\* The page-size buffer read_mem fills, at the tracked offsets.
read_mem(m, addr) == [o \in Offs |-> m[addr + o]]

\* The records one mapping contributes: one per page from start to end.
MapPages(map) ==
  {map.start + k * SNAPSHOT_PAGE_SIZE :
     k \in 0..((map.end - map.start + SNAPSHOT_PAGE_SIZE - 1) \div SNAPSHOT_PAGE_SIZE - 1)}

SnapshotPageInfo(map, addr, m) ==
  [ addr |-> addr, perms |-> map.flags, private |-> map.is_priv,
    dirty |-> FALSE,
    data |-> IF is_w(map.flags) THEN Some(read_mem(m, addr)) ELSE None ]

\* pages.insert over the mappings in order: a later mapping replaces the
\* record an earlier one inserted for the same page.
RECURSIVE InsertMaps(_, _, _, _)
InsertMaps(store, maps, i, m) ==
  IF i > Len(maps) THEN store
  ELSE LET map == maps[i]
           ps == MapPages(map)
           next == [a \in (DOMAIN store) \cup ps |->
                      IF a \in ps THEN SnapshotPageInfo(map, a, m) ELSE store[a]]
       IN InsertMaps(next, maps, i + 1, m)

\* snapshot without pages.clear().
snapshot_keeps_pages(h, maps, m, ebrk) ==
  [h EXCEPT !.brk = ebrk,
            !.pages = InsertMaps(h.pages, maps, 1, m),
            !.empty = FALSE]

\* snapshot that leaves the helper marked empty.
snapshot_stays_empty(h, maps, m, ebrk) ==
  [h EXCEPT !.brk = ebrk,
            !.pages = InsertMaps(<<>>, maps, 1, m)]

snapshot(h, maps, m, ebrk) ==
  [h EXCEPT !.brk = ebrk,
            !.pages = InsertMaps(<<>>, maps, 1, m),
            !.empty = FALSE]

(* ----------------------------- dirty marking --------------------------- *)

InCache(h, page) == \E i \in 0..3 : h.access_cache[i] = page

\* page_access without the early return on an already dirty record.
page_access_no_dirty_check(h, page) ==
  IF InCache(h, page) THEN h
  ELSE LET h1 == [h EXCEPT !.access_cache[h.access_cache_idx] = page,
                           !.access_cache_idx = (h.access_cache_idx + 1) % 4]
       IN IF page \in DOMAIN h1.pages
          THEN [h1 EXCEPT !.pages[page].dirty = TRUE, !.dirty = Append(@, page)]
          ELSE [h1 EXCEPT !.dirty = Append(@, page)]

page_access(h, page) ==
  IF InCache(h, page) THEN h
  ELSE LET h1 == [h EXCEPT !.access_cache[h.access_cache_idx] = page,
                           !.access_cache_idx = (h.access_cache_idx + 1) % 4]
       IN IF page \in DOMAIN h1.pages
          THEN IF h1.pages[page].dirty THEN h1
               ELSE [h1 EXCEPT !.pages[page].dirty = TRUE,
                               !.dirty = Append(@, page)]
          ELSE [h1 EXCEPT !.dirty = Append(@, page)]

\* The pages access(addr, size) passes to page_access, in order.
AccessPages(addr, size) ==
  LET page == MaskLow(addr)
      second_page == MaskLow(addr + size - 1)
  IN IF page # second_page THEN <<page, second_page>> ELSE <<page>>

RECURSIVE PageAccessAll(_, _, _)
PageAccessAll(h, ps, i) ==
  IF i > Len(ps) THEN h ELSE PageAccessAll(page_access(h, ps[i]), ps, i + 1)

\* The body of access after the debug assertion.  For size = 0 the
\* subtraction gives addr - 1, and for addr = 0 it wraps to u64::MAX, whose
\* low twelve bits MaskLow(-1) = 4095 gives.
access(h, addr, size) == PageAccessAll(h, AccessPages(addr, size), 1)

\* debug_assert!(size > 0): a build with debug assertions panics before the
\* helper is touched, a build without them does not evaluate the condition.
Builds == {"debug", "release"}
access_built(build, h, addr, size) ==
  IF build = "debug" /\ ~(size > 0)
  THEN [h |-> h, panic |-> TRUE, marks |-> <<>>]
  ELSE [h |-> access(h, addr, size), panic |-> FALSE,
        marks |-> AccessPages(addr, size)]

(* ------------------------- pending-mapping ledger ---------------------- *)

\* The ledger is the sequence of the tree's entries in key order; equal
\* intervals are kept side by side.
PermKey(perms) == IF IsSome(perms) THEN Unwrap(perms) ELSE 0
EntryBefore(r1, r2) ==
  \/ r1.start < r2.start
  \/ r1.start = r2.start /\ r1.end < r2.end
  \/ r1.start = r2.start /\ r1.end = r2.end /\ PermKey(r1.perms) <= PermKey(r2.perms)

IntervalTreeInsert(tree, r) ==
  LET n == Cardinality({i \in 1..Len(tree) : EntryBefore(tree[i], r)})
  IN SubSeq(tree, 1, n) \o <<r>> \o SubSeq(tree, n + 1, Len(tree))

\* new_maps.insert(start..start + size, perms)
add_mapped(h, start, size, perms) ==
  [h EXCEPT !.new_maps =
     IntervalTreeInsert(@, [start |-> start, end |-> start + size, perms |-> perms])]

\* The loop body without the extension of the current run (last.1 += size).
WalkPage_no_extend(store, perms, w) ==
  LET page == w.page
  IN IF page \in DOMAIN store
     THEN [w EXCEPT !.prev = FALSE,
             !.prot = IF IsSome(perms) /\ store[page].perms # Unwrap(perms)
                      THEN Append(@, [fn |-> "change_prot", addr |-> page,
                                      len |-> SNAPSHOT_PAGE_SIZE,
                                      perms |-> store[page].perms])
                      ELSE @]
     ELSE [w EXCEPT !.prev = TRUE,
             !.to_unmap = IF ~w.prev THEN Append(@, <<page, SNAPSHOT_PAGE_SIZE>>)
                          ELSE @]

\* One iteration of the while loop of reset_maps, before page advances: w
\* carries page, the change_prot calls made so far, to_unmap and prev.
WalkPage(store, perms, w) ==
  LET page == w.page
      tu == w.to_unmap
      n == Len(tu)
  IN IF page \in DOMAIN store
     THEN [w EXCEPT !.prev = FALSE,
             !.prot = IF IsSome(perms) /\ store[page].perms # Unwrap(perms)
                      THEN Append(@, [fn |-> "change_prot", addr |-> page,
                                      len |-> SNAPSHOT_PAGE_SIZE,
                                      perms |-> store[page].perms])
                      ELSE @]
     ELSE [w EXCEPT !.prev = TRUE,
             !.to_unmap =
                IF ~w.prev THEN Append(tu, <<page, SNAPSHOT_PAGE_SIZE>>)
                ELSE IF n > 0
                     THEN [tu EXCEPT ![n] = <<tu[n][1], tu[n][2] + SNAPSHOT_PAGE_SIZE>>]
                     ELSE tu]

\* while page < end { ...; page += SNAPSHOT_PAGE_SIZE }
RECURSIVE WalkLoop(_, _, _, _)
WalkLoop(store, perms, end, w) ==
  IF ~(w.page < end) THEN w
  ELSE WalkLoop(store, perms, end,
                [WalkPage(store, perms, w) EXCEPT !.page = @ + SNAPSHOT_PAGE_SIZE])

\* The body of the for loop of reset_maps for one interval r.
WalkInterval(store, r) ==
  LET w == WalkLoop(store, r.perms, r.end,
                    [page |-> MaskLow(r.start), prot |-> <<>>,
                     to_unmap |-> <<>>, prev |-> FALSE])
  IN [start |-> r.start, end |-> r.end, perms |-> r.perms,
      prot |-> w.prot, to_unmap |-> w.to_unmap]

\* new_maps.find(0..u64::MAX): the intervals that overlap the query.
Found(r) == r.start < U64_MAX /\ 0 < r.end

\* The orders in which the tree's iterator may yield n entries.
Orders(n) == {f \in [1..n -> 1..n] : \A i, j \in 1..n : i # j => f[i] # f[j]}

\* The walk of every ledger entry, entry by entry; an entry find does not
\* yield is not walked.
LedgerWalks(store, ledger) ==
  [i \in 1..Len(ledger) |->
     IF Found(ledger[i]) THEN WalkInterval(store, ledger[i])
     ELSE [start |-> ledger[i].start, end |-> ledger[i].end,
           perms |-> ledger[i].perms, prot |-> <<>>, to_unmap |-> <<>>]]

\* The change_prot calls in the order the iterator yields the entries.
RECURSIVE ProtCalls(_, _, _)
ProtCalls(ws, order, i) ==
  IF i > Len(ws) THEN <<>> ELSE ws[order[i]].prot \o ProtCalls(ws, order, i + 1)

\* reset_maps that keeps the ledger (neither clear() nor a new tree).
reset_maps_keeps_ledger(h, order) ==
  LET ws == LedgerWalks(h.pages, h.new_maps)
  IN [h |-> h, walks |-> ws, calls |-> ProtCalls(ws, order, 1)]

\* reset_maps: the helper afterwards, the walks and the emulator calls.
reset_maps(h, order) ==
  LET ws == LedgerWalks(h.pages, h.new_maps)
  IN [h |-> [h EXCEPT !.new_maps = <<>>], walks |-> ws,
      calls |-> ProtCalls(ws, order, 1)]

(* -------------------------------- reset -------------------------------- *)

\* emulator.write_mem(page, data): the tracked bytes of the page.
write_mem(m, page, data) ==
  [a \in DOMAIN m |->
     IF a - page \in Offs THEN data[a - page] ELSE m[a]]

\* The drain with `if let` for `while let`: one entry is popped.
DrainDirty_once(d) ==
  IF Len(d.h.dirty) = 0 THEN d
  ELSE LET page == d.h.dirty[Len(d.h.dirty)]
           h1 == [d.h EXCEPT !.dirty = SubSeq(@, 1, Len(@) - 1)]
       IN IF page \in DOMAIN h1.pages
          THEN LET info == h1.pages[page]
                   h2 == [h1 EXCEPT !.pages[page].dirty = FALSE]
               IN IF IsSome(info.data)
                  THEN [h |-> h2,
                        mem |-> write_mem(d.mem, page, Unwrap(info.data)),
                        calls |-> Append(d.calls,
                           [fn |-> "write_mem", addr |-> page,
                            data |-> Unwrap(info.data),
                            pending |-> Len(d.h.new_maps)])]
                  ELSE [d EXCEPT !.h = h2]
          ELSE [d EXCEPT !.h = h1]

\* The drain without info.dirty = false.
RECURSIVE DrainDirty_keeps_flag(_)
DrainDirty_keeps_flag(d) ==
  IF Len(d.h.dirty) = 0 THEN d
  ELSE LET page == d.h.dirty[Len(d.h.dirty)]
           h1 == [d.h EXCEPT !.dirty = SubSeq(@, 1, Len(@) - 1)]
       IN IF page \in DOMAIN h1.pages /\ IsSome(h1.pages[page].data)
          THEN DrainDirty_keeps_flag([h |-> h1,
                 mem |-> write_mem(d.mem, page, Unwrap(h1.pages[page].data)),
                 calls |-> Append(d.calls,
                    [fn |-> "write_mem", addr |-> page,
                     data |-> Unwrap(h1.pages[page].data),
                     pending |-> Len(d.h.new_maps)])])
          ELSE DrainDirty_keeps_flag([d EXCEPT !.h = h1])

\* The drain with info.dirty = false inside the `if let Some(data)` block:
\* the flag of a record without contents stays set.
RECURSIVE DrainDirty_flag_with_data(_)
DrainDirty_flag_with_data(d) ==
  IF Len(d.h.dirty) = 0 THEN d
  ELSE LET page == d.h.dirty[Len(d.h.dirty)]
           h1 == [d.h EXCEPT !.dirty = SubSeq(@, 1, Len(@) - 1)]
       IN IF page \in DOMAIN h1.pages /\ IsSome(h1.pages[page].data)
          THEN DrainDirty_flag_with_data(
                 [h |-> [h1 EXCEPT !.pages[page].dirty = FALSE],
                  mem |-> write_mem(d.mem, page, Unwrap(h1.pages[page].data)),
                  calls |-> Append(d.calls,
                     [fn |-> "write_mem", addr |-> page,
                      data |-> Unwrap(h1.pages[page].data),
                      pending |-> Len(d.h.new_maps)])])
          ELSE DrainDirty_flag_with_data([d EXCEPT !.h = h1])

\* while let Some(page) = self.dirty.pop(): d carries the helper, the
\* emulator memory and the write_mem calls made so far; a call is logged
\* with its arguments and the number of ledger entries pending when it is
\* made.
RECURSIVE DrainDirty(_)
DrainDirty(d) ==
  IF Len(d.h.dirty) = 0 THEN d
  ELSE LET page == d.h.dirty[Len(d.h.dirty)]
           h1 == [d.h EXCEPT !.dirty = SubSeq(@, 1, Len(@) - 1)]
       IN IF page \in DOMAIN h1.pages
          THEN LET info == h1.pages[page]
                   h2 == [h1 EXCEPT !.pages[page].dirty = FALSE]
               IN IF IsSome(info.data)
                  THEN DrainDirty([h |-> h2,
                         mem |-> write_mem(d.mem, page, Unwrap(info.data)),
                         calls |-> Append(d.calls,
                            [fn |-> "write_mem", addr |-> page,
                             data |-> Unwrap(info.data),
                             pending |-> Len(d.h.new_maps)])])
                  ELSE DrainDirty([d EXCEPT !.h = h2])
          ELSE DrainDirty([d EXCEPT !.h = h1])

\* reset that leaves the access cache and its index as they are.
reset_keeps_cache(h, m, order) ==
  LET rm == reset_maps(h, order)
      d == DrainDirty([h |-> rm.h, mem |-> m, calls |-> <<>>])
  IN [h |-> d.h, mem |-> d.mem, emu_brk |-> d.h.brk, walks |-> rm.walks,
      calls |-> rm.calls \o d.calls \o <<[fn |-> "set_brk", brk |-> d.h.brk]>>]

\* reset with the dirty queue drained before reset_maps runs.
reset_drains_first(h, m, order) ==
  LET h1 == [h EXCEPT !.access_cache = [i \in 0..3 |-> U64_MAX],
                      !.access_cache_idx = 0]
      d == DrainDirty([h |-> h1, mem |-> m, calls |-> <<>>])
      rm == reset_maps(d.h, order)
  IN [h |-> rm.h, mem |-> d.mem, emu_brk |-> rm.h.brk, walks |-> rm.walks,
      calls |-> d.calls \o rm.calls \o <<[fn |-> "set_brk", brk |-> rm.h.brk]>>]

\* reset: the helper afterwards, the emulator memory and break pointer, the
\* walks of reset_maps and every emulator call in order.
reset(h, m, order) ==
  LET rm == reset_maps(h, order)
      h1 == [rm.h EXCEPT !.access_cache = [i \in 0..3 |-> U64_MAX],
                         !.access_cache_idx = 0]
      d == DrainDirty([h |-> h1, mem |-> m, calls |-> <<>>])
  IN [h |-> d.h, mem |-> d.mem, emu_brk |-> d.h.brk, walks |-> rm.walks,
      calls |-> rm.calls \o d.calls \o <<[fn |-> "set_brk", brk |-> d.h.brk]>>]

(* --------------------------- post-syscall hook ------------------------- *)

\* The dispatch on sys_num that follows the early return.
Dispatch(h, result, sys_num, a0, a1, a2) ==
  IF sys_num = SYS_mmap
  THEN IF IsSome(MmapPermsTryFrom(a2))
       THEN add_mapped(h, result, a1, Some(Unwrap(MmapPermsTryFrom(a2))))
       ELSE h
  ELSE IF sys_num = SYS_mremap
       THEN add_mapped(h, a0, a2, None)
  ELSE IF sys_num = SYS_mprotect
       THEN IF IsSome(MmapPermsTryFrom(a2))
            THEN add_mapped(h, a0, a2, Some(Unwrap(MmapPermsTryFrom(a2))))
            ELSE h
  ELSE h

\* The hook with the early return taken for a failed mmap only.
trace_mmap_snapshot_mmap_only(h, result, sys_num, a0, a1, a2) ==
  IF result = U64_MAX /\ sys_num = SYS_mmap THEN [h |-> h, ret |-> result]
  ELSE [h |-> Dispatch(h, result, sys_num, a0, a1, a2), ret |-> result]

\* trace_mmap_snapshot: the helper afterwards and the value returned.
trace_mmap_snapshot(h, result, sys_num, a0, a1, a2) ==
  IF result = U64_MAX THEN [h |-> h, ret |-> result]
  ELSE [h |-> Dispatch(h, result, sys_num, a0, a1, a2), ret |-> result]

(* ------------------------------- actions ------------------------------- *)

SetSelf(h) ==
  /\ access_cache' = h.access_cache
  /\ access_cache_idx' = h.access_cache_idx
  /\ pages' = h.pages
  /\ dirty' = h.dirty
  /\ brk' = h.brk
  /\ new_maps' = h.new_maps
  /\ empty' = h.empty

SeqSet(q) == {q[i] : i \in 1..Len(q)}

Init ==
  /\ access_cache = new.access_cache
  /\ access_cache_idx = new.access_cache_idx
  /\ pages = new.pages
  /\ dirty = new.dirty
  /\ brk = new.brk
  /\ new_maps = new.new_maps
  /\ empty = new.empty
  /\ mappings \in Layouts
  /\ mem = [a \in MemAddrs |-> 0]
  /\ emu_brk = 16384
  /\ calls = <<>>
  /\ walks = <<>>
  /\ last = [op |-> "new"]
  /\ marked = {}
  /\ written = {}
  /\ events = {}
  /\ clean = FALSE
  /\ nexec = 0

(* ------------------------------ write hooks ---------------------------- *)

\* The instrumented store itself: size bytes of value v from addr on.
MemWrite(m, addr, size, v) ==
  [a \in DOMAIN m |-> IF addr <= a /\ a < addr + size THEN v ELSE m[a]]

\* An instrumented write of the target: the emulator stores the bytes and the
\* write hook reports the store through access(addr, size).
TraceWrite(addr, size, v) ==
  LET h == access(Self, addr, size)
  IN /\ Len(h.dirty) <= MaxDirty
     /\ SetSelf(h)
     /\ mem' = MemWrite(mem, addr, size, v)
     /\ marked' = marked \cup SeqSet(AccessPages(addr, size))
     /\ written' = written \cup {a \in MemAddrs : addr <= a /\ a < addr + size}
     /\ calls' = <<>>
     /\ walks' = <<>>
     /\ UNCHANGED <<mappings, emu_brk, events, clean, nexec>>

\* What last keeps of a call of access.
LastAccess(hook, addr, size) ==
  [op |-> "access", hook |-> hook, addr |-> addr, size |-> size,
   marks |-> AccessPages(addr, size), panic |-> FALSE]

\* Addresses the modelled target stores to, per write width.
Write1Addrs == {4096, 8191}
Write2Addrs == {8191}
Write4Addrs == {8191}
Write8Addrs == {8191}
WriteNArgs == {<<4096, 3>>, <<4096, 4097>>}

trace_write1_snapshot(addrs, vals) ==
  \E addr \in addrs, v \in vals :
    /\ TraceWrite(addr, 1, v)
    /\ last' = LastAccess("write1", addr, 1)
trace_write2_snapshot ==
  \E addr \in Write2Addrs, v \in Bytes :
    /\ TraceWrite(addr, 2, v)
    /\ last' = LastAccess("write2", addr, 2)
trace_write4_snapshot ==
  \E addr \in Write4Addrs, v \in Bytes :
    /\ TraceWrite(addr, 4, v)
    /\ last' = LastAccess("write4", addr, 4)
trace_write8_snapshot ==
  \E addr \in Write8Addrs, v \in Bytes :
    /\ TraceWrite(addr, 8, v)
    /\ last' = LastAccess("write8", addr, 8)
trace_write_n_snapshot ==
  \E a \in WriteNArgs, v \in Bytes :
    /\ TraceWrite(a[1], a[2], v)
    /\ last' = LastAccess("write_n", a[1], a[2])

(* --------------------------- snapshot and reset ------------------------ *)

DoSnapshot(op) ==
  /\ SetSelf(snapshot(Self, mappings, mem, emu_brk))
  /\ last' = [op |-> op, did |-> "snapshot", had |-> DOMAIN pages]
  /\ calls' = <<>>
  /\ walks' = <<>>
  /\ written' = {}
  /\ events' = {}
  /\ clean' = FALSE
  /\ UNCHANGED <<mappings, mem, emu_brk, marked>>

DoReset(op) ==
  \E order \in Orders(Len(new_maps)) :
    LET r == reset(Self, mem, order)
    IN /\ SetSelf(r.h)
       /\ mem' = r.mem
       /\ emu_brk' = r.emu_brk
       /\ calls' = r.calls
       /\ walks' = r.walks
       /\ last' = [op |-> op, did |-> "reset", marked |-> marked,
                   written |-> written, events |-> events,
                   again |-> (last.op \in {"pre_exec", "reset"} /\ last.did = "reset"),
                   prev_calls |-> Len(calls), old_brk |-> emu_brk]
       /\ marked' = {}
       /\ written' = {}
       /\ events' = {}
       /\ clean' = TRUE
       /\ UNCHANGED mappings

\* QemuHelper::pre_exec
pre_exec ==
  /\ IF empty THEN DoSnapshot("pre_exec") ELSE DoReset("pre_exec")
  /\ nexec' = IF nexec < MaxExec THEN nexec + 1 ELSE nexec

(* --------------------------- post-syscall hook ------------------------- *)

\* Post-syscall events <<result, sys_num, a0, a1, a2>> of the modelled target:
\* mmap(hint, len, prot) = result, mprotect(addr, len, prot) = 0,
\* mremap(old, old_len, new_len) = old, brk(b) = b, and one failure of each.
SyscallEvents ==
  {<<8192, SYS_mmap, 0, l, p>> : l \in {4096, 4097}, p \in {0, 3}}
  \cup {<<0, SYS_mprotect, 4096, 8192, p>> : p \in {0, 1}}
  \cup {<<4096, SYS_mremap, 4096, 4096, 8192>>, <<0, SYS_brk, 20480, 0, 0>>}
  \cup {<<U64_MAX, n, 4096, 4096, 3>> :
          n \in {SYS_mmap, SYS_mprotect, SYS_mremap, SYS_brk}}

\* What the ghost set of pending events keeps of an event: the arguments as
\* the syscall names them, for a successful mmap or mprotect whose
\* protection decodes.
EventOf(e) ==
  IF e[1] # U64_MAX /\ e[2] = SYS_mmap /\ IsSome(MmapPermsTryFrom(e[5]))
  THEN {[sys |-> "mmap", addr |-> e[1], len |-> e[4], prot |-> e[5]]}
  ELSE IF e[1] # U64_MAX /\ e[2] = SYS_mprotect /\ IsSome(MmapPermsTryFrom(e[5]))
  THEN {[sys |-> "mprotect", addr |-> e[3], len |-> e[4], prot |-> e[5]]}
  ELSE {}

\* The post-syscall hook; a successful brk moves the emulator break pointer.
TraceMmap(e) ==
  LET t == trace_mmap_snapshot(Self, e[1], e[2], e[3], e[4], e[5])
      h == t.h
  IN /\ Len(h.new_maps) <= MaxLedger
     /\ SetSelf(h)
     /\ emu_brk' = IF e[2] = SYS_brk /\ e[1] # U64_MAX THEN e[3] ELSE emu_brk
     /\ events' = events \cup EventOf(e)
     /\ last' = [op |-> "syscall", result |-> e[1], sys_num |-> e[2],
                 a0 |-> e[3], a1 |-> e[4], a2 |-> e[5], ret |-> t.ret]
     /\ calls' = <<>>
     /\ walks' = <<>>
     /\ UNCHANGED <<mappings, mem, marked, written, clean, nexec>>

hook_after_syscalls == \E e \in SyscallEvents : TraceMmap(e)

(* ------------------------- specifications ------------------------------ *)

\* The helper as the executor drives it while the target stores to memory:
\* pre_exec before every run and the five write hooks.
Next ==
  \/ pre_exec
  \/ trace_write1_snapshot(Write1Addrs, Bytes)
  \/ trace_write2_snapshot
  \/ trace_write4_snapshot
  \/ trace_write8_snapshot
  \/ trace_write_n_snapshot

Spec == Init /\ [][Next]_vars

\* The helper as the executor drives it while the target changes its
\* mappings: pre_exec, the post-syscall hook and one-byte stores.
NextMaps ==
  \/ pre_exec
  \/ hook_after_syscalls
  \/ trace_write1_snapshot({4096}, {1})

SpecMaps == Init /\ [][NextMaps]_vars

(* ------------------- the helper's methods called directly -------------- *)

Snapshot == DoSnapshot("snapshot") /\ UNCHANGED nexec

Reset == DoReset("reset") /\ UNCHANGED nexec

ResetMaps ==
  \E order \in Orders(Len(new_maps)) :
    LET r == reset_maps(Self, order)
    IN /\ SetSelf(r.h)
       /\ calls' = r.calls
       /\ walks' = r.walks
       /\ last' = [op |-> "reset_maps", did |-> "reset_maps", events |-> events]
       /\ events' = {}
       /\ UNCHANGED <<mappings, mem, emu_brk, marked, written, clean, nexec>>

PageAccess(ps, maxq) ==
  \E page \in ps :
    LET h == page_access(Self, page)
    IN /\ Len(h.dirty) <= maxq
       /\ SetSelf(h)
       /\ marked' = marked \cup {page}
       /\ last' = [op |-> "page_access", page |-> page,
                   hit |-> InCache(Self, page), again |-> page \in marked]
       /\ calls' = <<>>
       /\ walks' = <<>>
       /\ UNCHANGED <<mappings, mem, emu_brk, written, events, clean, nexec>>

Access(args) ==
  \E a \in args, build \in Builds :
    LET r == access_built(build, Self, a[1], a[2])
        h == r.h
    IN /\ Len(h.dirty) <= MaxDirty
       /\ SetSelf(h)
       /\ marked' = marked \cup SeqSet(r.marks)
       /\ last' = [LastAccess("none", a[1], a[2]) EXCEPT
                     !.marks = r.marks, !.panic = r.panic]
       /\ calls' = <<>>
       /\ walks' = <<>>
       /\ UNCHANGED <<mappings, mem, emu_brk, written, events, clean, nexec>>

AddMapped(args) ==
  \E a \in args :
    LET h == add_mapped(Self, a[1], a[2], a[3])
    IN /\ Len(h.new_maps) <= MaxLedger
       /\ SetSelf(h)
       /\ last' = [op |-> "add_mapped", start |-> a[1], size |-> a[2],
                   perms |-> a[3]]
       /\ calls' = <<>>
       /\ walks' = <<>>
       /\ UNCHANGED <<mappings, mem, emu_brk, marked, written, events, clean, nexec>>

\* The target changes its memory layout (mmap, munmap, mprotect run by the
\* emulator): emulator.mappings() reports another layout from now on.  The
\* helper is not told.
MappingsChange ==
  \E maps \in Layouts \ {mappings} :
    /\ mappings' = maps
    /\ last' = [op |-> "mappings"]
    /\ calls' = <<>>
    /\ walks' = <<>>
    /\ UNCHANGED <<access_cache, access_cache_idx, pages, dirty, brk, new_maps,
                   empty, mem, emu_brk, marked, written, events, clean, nexec>>

\* One page more than the access cache has slots, with and without records.
CachePages == {0, 4096, 8192, 12288, 16384}

\* snapshot, page_access and reset in any order.
NextCache ==
  \/ Snapshot
  \/ PageAccess(CachePages, MaxQueue)
  \/ Reset

SpecCache == Init /\ [][NextCache]_vars

ApiAccessArgs == {<<4096, 1>>, <<8191, 2>>}
ApiPages == {4096, 8192}
ApiMappedArgs ==
  {<<4096, 8192, Some(1)>>, <<8192, 4096, None>>, <<16384, 4096, Some(3)>>}

\* Every public method of the helper, called in any order.
NextApi ==
  \/ Snapshot
  \/ PageAccess(ApiPages, MaxDirty)
  \/ Access(ApiAccessArgs)
  \/ AddMapped(ApiMappedArgs)
  \/ Reset
  \/ ResetMaps

SpecApi == Init /\ [][NextApi]_vars

StoreMappedArgs == {<<4096, 8192, Some(1)>>}
\* Calls of access with and without a size of zero.
StoreAccessArgs == ApiAccessArgs \cup {<<4096, 0>>, <<0, 0>>}

\* Every public method of the helper, called in any order, while the
\* target's memory layout changes.
NextStore ==
  \/ Snapshot
  \/ MappingsChange
  \/ PageAccess(ApiPages, MaxDirty)
  \/ Access(StoreAccessArgs)
  \/ AddMapped(StoreMappedArgs)
  \/ Reset
  \/ ResetMaps

SpecStore == Init /\ [][NextStore]_vars

(* ------------------------------ properties ----------------------------- *)

Count(q, x) == Cardinality({i \in 1..Len(q) : q[i] = x})
InQueue(x) == \E i \in 1..Len(dirty) : dirty[i] = x
HasData(p) == p \in DOMAIN pages /\ IsSome(pages[p].data)
\* The byte captured for address a at the last snapshot.
Baseline(a) == Unwrap(pages[PageOf(a)].data)[a - PageOf(a)]
\* The last operation ran reset (directly or through pre_exec).
DidReset == last.op \in {"pre_exec", "reset"} /\ last.did = "reset"
CallsOf(fn) == {i \in 1..Len(calls) : calls[i].fn = fn}

\* C1 (restore correctness): after a reset, every address that was stored to
\* and reported through access since the snapshot, and that lies in a page
\* captured with contents, holds the byte it held at the snapshot.
C1_RestoreCorrectness ==
  DidReset =>
    \A a \in last.written : HasData(PageOf(a)) => mem[a] = Baseline(a)

\* C2: an access that stays inside one page passes exactly one page to
\* page_access, the page-aligned address of the page containing addr, and
\* that page is in the dirty queue afterwards.
C2_AccessMarksContainingPage ==
  (last.op = "access" /\ last.size > 0
     /\ MaskLow(last.addr) + last.size <= SNAPSHOT_PAGE_SIZE) =>
    /\ last.marks = <<PageOf(last.addr)>>
    /\ InQueue(PageOf(last.addr))

\* C3 (cross-page write splitting): an access whose bytes cross a page
\* boundary marks the page containing addr and the next page, and both are
\* in the dirty queue afterwards.
C3_CrossPageSplit ==
  (last.op = "access"
     /\ MaskLow(last.addr) + last.size > SNAPSHOT_PAGE_SIZE) =>
    /\ PageOf(last.addr) \in SeqSet(last.marks)
    /\ PageOf(last.addr) + SNAPSHOT_PAGE_SIZE \in SeqSet(last.marks)
    /\ InQueue(PageOf(last.addr))
    /\ InQueue(PageOf(last.addr) + SNAPSHOT_PAGE_SIZE)

RangePages(addr, len) ==
  {p \in {PageOf(addr) + k * SNAPSHOT_PAGE_SIZE :
            k \in 0..((len + SNAPSHOT_PAGE_SIZE - 1) \div SNAPSHOT_PAGE_SIZE)} :
     p < addr + len}
\* Page p lies inside an unmap candidate the last reset_maps computed.
UnmapCandidate(p) ==
  \E i \in 1..Len(walks) : \E j \in 1..Len(walks[i].to_unmap) :
    LET run == walks[i].to_unmap[j]
    IN run[1] <= p /\ p + SNAPSHOT_PAGE_SIZE <= run[1] + run[2]

\* C5 (permission reconciliation): after a reset, for every mprotect event
\* since the baseline whose protection decoded, every recorded page of
\* [addr, addr + len) whose baseline permission differs from the event's
\* was requested back to its baseline permission by change_prot.
C5_PermissionReconciliation ==
  DidReset =>
    \A e \in last.events :
      e.sys = "mprotect" =>
        \A p \in RangePages(e.addr, e.len) \cap DOMAIN pages :
          pages[p].perms # e.prot =>
            \E i \in 1..Len(calls) :
              calls[i] = [fn |-> "change_prot", addr |-> p,
                          len |-> SNAPSHOT_PAGE_SIZE, perms |-> pages[p].perms]

\* C6 (new-mapping cleanup): after a reset, for every mmap event since the
\* baseline whose protection decoded and whose range holds no recorded
\* page, every page of [R, R + L) lies inside an unmap candidate that
\* reset computed.
C6_NewMappingCleanup ==
  DidReset =>
    \A e \in last.events :
      (e.sys = "mmap" /\ RangePages(e.addr, e.len) \cap DOMAIN pages = {}) =>
        \A p \in RangePages(e.addr, e.len) : UnmapCandidate(p)

\* A reset has reconciled an mmap of two fresh pages.
C6_Witness ==
  /\ DidReset
  /\ \E e \in last.events :
       /\ e.sys = "mmap"
       /\ RangePages(e.addr, e.len) \cap DOMAIN pages = {}
       /\ Cardinality(RangePages(e.addr, e.len)) = 2
       /\ \A p \in RangePages(e.addr, e.len) : UnmapCandidate(p)

\* C7: every reset and every reset_maps walks each ledger entry and leaves
\* the ledger empty; snapshot, access and page_access leave the ledger as
\* it is.
C7_LedgerClearedByReset ==
  [][ /\ (last'.op \in {"pre_exec", "reset", "reset_maps"}
            /\ last'.did \in {"reset", "reset_maps"}) =>
          /\ new_maps' = <<>>
          /\ Len(walks') = Len(new_maps)
          /\ \A i \in 1..Len(new_maps) :
               /\ walks'[i].start = new_maps[i].start
               /\ walks'[i].end = new_maps[i].end
      /\ last'.op \in {"snapshot", "access", "page_access"} =>
          new_maps' = new_maps ]_vars

\* A reset has consumed a ledger of two intervals.
C7_Witness ==
  /\ last.op = "reset"
  /\ Len(walks) = 2
  /\ new_maps = <<>>

\* C8 (idempotent reset): a reset that directly follows a reset makes no
\* write_mem and no change_prot call and leaves the page store, the (empty)
\* dirty queue, the access cache and the ledger unchanged.
C8_IdempotentReset ==
  [][ (DidReset /\ DidReset') =>
        /\ CallsOf("write_mem")' = {}
        /\ CallsOf("change_prot")' = {}
        /\ pages' = pages
        /\ dirty = <<>> /\ dirty' = <<>>
        /\ access_cache' = access_cache
        /\ access_cache_idx' = access_cache_idx
        /\ new_maps' = new_maps ]_vars

\* A second reset follows a reset that wrote pages back and reprotected.
C8_Witness ==
  /\ DidReset
  /\ last.again
  /\ last.prev_calls >= 3
  /\ calls = <<[fn |-> "set_brk", brk |-> brk]>>

\* C9 (lifecycle): a new helper is empty; the first pre_exec runs snapshot
\* and makes no emulator call of reset, every later pre_exec runs reset; and
\* no step takes a primed helper back to empty.
C9_Lifecycle ==
  /\ [](last.op = "new" => empty /\ nexec = 0)
  /\ [](last.op = "pre_exec" =>
          IF nexec = 1
          THEN last.did = "snapshot" /\ calls = <<>> /\ ~empty
          ELSE last.did = "reset" /\ CallsOf("set_brk") # {} /\ ~empty)
  /\ [][~empty => ~empty']_vars

\* A later pre_exec has run reset.
C9_Witness ==
  /\ last.op = "pre_exec"
  /\ nexec >= 2
  /\ last.did = "reset"
  /\ ~empty

\* C10 (reset postcondition): after a reset the dirty queue is empty, no
\* page record is dirty, every cache slot holds the sentinel and the
\* replacement index is 0.
C10_ResetPostcondition ==
  DidReset =>
    /\ dirty = <<>>
    /\ \A p \in DOMAIN pages : ~pages[p].dirty
    /\ \A i \in 0..3 : access_cache[i] = U64_MAX
    /\ access_cache_idx = 0

\* A reset has drained a queue that held a recorded page and a page
\* without a record.
C10_Witness ==
  /\ DidReset
  /\ last.marked \cap DOMAIN pages # {}
  /\ last.marked \ DOMAIN pages # {}
  /\ dirty = <<>>
  /\ \A p \in DOMAIN pages : ~pages[p].dirty

\* The last operation ran snapshot (directly or through pre_exec).
DidSnapshot == last.op \in {"pre_exec", "snapshot"} /\ last.did = "snapshot"
\* The pages start + k * 4096 < end of a region.
RegionPages(map) ==
  {a \in {map.start + k * SNAPSHOT_PAGE_SIZE : k \in 0..NumPages} : a < map.end}
\* A page store without the dirty flags.
StoreShape(store) ==
  [a \in DOMAIN store |->
     [addr |-> store[a].addr, perms |-> store[a].perms,
      private |-> store[a].private, data |-> store[a].data]]

\* C11 (page store shape): a snapshot leaves exactly one page record per
\* page start + k * 4096 < end of the regions the emulator reports, with the
\* region's permissions and private flag, and with contents (the bytes of
\* memory at that moment) iff the region is writable; every other step
\* (access, page_access, add_mapped, reset, reset_maps, a change of the
\* layout) adds and removes no record and changes no record's address,
\* permissions, private flag or contents.
C11_PageStoreShape ==
  [][ IF DidSnapshot'
      THEN /\ DOMAIN pages' = UNION {RegionPages(mappings[i]) : i \in 1..Len(mappings)}
           /\ \A i \in 1..Len(mappings) : \A a \in RegionPages(mappings[i]) :
                /\ pages'[a].addr = a
                /\ pages'[a].perms = mappings[i].flags
                /\ pages'[a].private = mappings[i].is_priv
                /\ IsSome(pages'[a].data) <=> is_w(mappings[i].flags)
                /\ IsSome(pages'[a].data) =>
                     \A o \in Offs : Unwrap(pages'[a].data)[o] = mem[a + o]
      ELSE StoreShape(pages') = StoreShape(pages) ]_vars

\* A snapshot has replaced the store of another layout; the new store holds
\* a record with contents and a record without.
C11_Witness ==
  /\ DidSnapshot
  /\ last.had # {}
  /\ last.had # DOMAIN pages
  /\ \E a \in DOMAIN pages : IsSome(pages[a].data)
  /\ \E a \in DOMAIN pages : ~IsSome(pages[a].data)

\* C12 (failed syscalls are ignored): a call of the post-syscall hook with
\* result u64::MAX, whatever the syscall number and arguments, leaves the
\* ledger and every other field of the helper as they were and returns the
\* result it was given.
C12_FailedSyscallIgnored ==
  [][ (last'.op = "syscall" /\ last'.result = U64_MAX) =>
        /\ new_maps' = new_maps
        /\ access_cache' = access_cache
        /\ access_cache_idx' = access_cache_idx
        /\ pages' = pages
        /\ dirty' = dirty
        /\ brk' = brk
        /\ empty' = empty
        /\ last'.ret = last'.result ]_vars

\* A failed mprotect has been reported to a primed helper whose ledger
\* holds an entry.
C12_Witness ==
  /\ last.op = "syscall"
  /\ last.result = U64_MAX
  /\ last.sys_num = SYS_mprotect
  /\ last.ret = U64_MAX
  /\ ~empty
  /\ Len(new_maps) = 1

\* C13 (mprotect adapter): a successful mprotect(addr = a0, len = a1,
\* prot = a2) whose prot decodes adds exactly the interval [a0, a0 + a1)
\* with Some(prot) to the ledger.
C13_MprotectAdapter ==
  [][ (/\ last'.op = "syscall"
       /\ last'.result # U64_MAX
       /\ last'.sys_num = SYS_mprotect
       /\ IsSome(MmapPermsTryFrom(last'.a2))) =>
        new_maps' = IntervalTreeInsert(new_maps,
                      [start |-> last'.a0, end |-> last'.a0 + last'.a1,
                       perms |-> Some(last'.a2)]) ]_vars

\* C14 (size = 0 fails loudly): a call of access with size = 0 panics,
\* marks no page and leaves the access cache, the replacement index, the
\* dirty queue and the page store as they were.
C14_ZeroSizeFailsLoudly ==
  [][ (last'.op = "access" /\ last'.size = 0) =>
        /\ last'.panic
        /\ last'.marks = <<>>
        /\ access_cache' = access_cache
        /\ access_cache_idx' = access_cache_idx
        /\ dirty' = dirty
        /\ pages' = pages ]_vars

\* C15 (ordering inside one reset): in the calls one reset makes, every
\* change_prot comes before every write_mem, the ledger is empty at every
\* write_mem, and the last call is the only set_brk, with the break pointer
\* the last snapshot read from the emulator (brk is assigned by snapshot
\* alone).
C15_ResetOrdering ==
  /\ [](DidReset =>
          /\ \A i \in CallsOf("change_prot") : \A j \in CallsOf("write_mem") : i < j
          /\ \A j \in CallsOf("write_mem") : calls[j].pending = 0
          /\ CallsOf("set_brk") = {Len(calls)}
          /\ calls[Len(calls)].brk = brk
          /\ emu_brk = brk)
  /\ [][IF DidSnapshot' THEN brk' = emu_brk ELSE brk' = brk]_vars

\* A reset has reprotected a page, written a page back and moved the break
\* pointer back.
C15_Witness ==
  /\ DidReset
  /\ CallsOf("change_prot") # {}
  /\ CallsOf("write_mem") # {}
  /\ last.old_brk # brk
  /\ emu_brk = brk

\* C16 (dirty queue invariant): every address in the dirty queue either has
\* a page record whose dirty flag is set or has no page record.
C16_DirtyQueueInvariant ==
  \A i \in 1..Len(dirty) :
    dirty[i] \in DOMAIN pages => pages[dirty[i]].dirty

\* The last operation ran reset_maps (directly or through reset).
DidResetMaps == DidReset \/ last.op = "reset_maps"
\* The pages of an unmap candidate run <<addr, size>>.
RunPages(run) ==
  {run[1] + k * SNAPSHOT_PAGE_SIZE : k \in 0..(run[2] \div SNAPSHOT_PAGE_SIZE - 1)}

\* C17 (reset_maps stays inside the recorded intervals): for each interval
\* [start, end) of the ledger, every change_prot request and every page of
\* every unmap candidate run is a page p with PageOf(start) <= p < end, and
\* the pages of the runs have no page record.
C17_WalkStaysInside ==
  DidResetMaps =>
    \A i \in 1..Len(walks) :
      LET w == walks[i]
          inside(p) == PageOf(w.start) <= p /\ p < w.end /\ MaskLow(p) = 0
      IN /\ \A k \in 1..Len(w.prot) : inside(w.prot[k].addr)
         /\ \A j \in 1..Len(w.to_unmap) :
              \A p \in RunPages(w.to_unmap[j]) :
                inside(p) /\ p \notin DOMAIN pages

\* C18 (write-back at reset): the write_mem calls of one reset go only to
\* addresses that were in the dirty queue and have a page record with
\* contents, they write the contents of that record, the queue is empty
\* afterwards, and every queued page that has a record with contents is
\* written back exactly once.
C18_WriteBack ==
  [][ DidReset' =>
        /\ \A j \in CallsOf("write_mem")' :
             /\ calls'[j].addr \in SeqSet(dirty)
             /\ HasData(calls'[j].addr)
             /\ calls'[j].data = Unwrap(pages[calls'[j].addr].data)
        /\ dirty' = <<>>
        /\ \A p \in SeqSet(dirty) :
             HasData(p) =>
               Cardinality({j \in CallsOf("write_mem")' : calls'[j].addr = p}) = 1
    ]_vars

\* C19 (lookup misses are not errors): a page_access that misses the cache
\* on a page without a record appends the page to the dirty queue and
\* leaves the page store as it is; a reset pops every entry, makes no
\* write_mem call for a queued page that has no record or whose record has
\* no contents, and clears the dirty flag of every queued record.
C19_LookupMisses ==
  [][ /\ (last'.op = "page_access" /\ ~last'.hit
            /\ last'.page \notin DOMAIN pages) =>
          /\ dirty' = Append(dirty, last'.page)
          /\ pages' = pages
      /\ DidReset' =>
          /\ dirty' = <<>>
          /\ \A p \in SeqSet(dirty) :
               /\ ~HasData(p) => \A j \in CallsOf("write_mem")' : calls'[j].addr # p
               /\ p \in DOMAIN pages =>
                    /\ ~pages'[p].dirty
                    /\ StoreShape(pages')[p] = StoreShape(pages)[p]
    ]_vars

\* A reset has drained a page without a record, a dirty record without
\* contents and a dirty record with contents.
C19_Witness ==
  /\ DidReset
  /\ last.marked \ DOMAIN pages # {}
  /\ \E p \in last.marked \cap DOMAIN pages : ~IsSome(pages[p].data)
  /\ \A i \in 1..Len(calls) : calls[i].fn = "write_mem" => HasData(calls[i].addr)
  /\ CallsOf("write_mem") # {}
  /\ dirty = <<>>
  /\ \A p \in DOMAIN pages : ~pages[p].dirty

\* C20 (cache-hit safety): the replacement index is in 0..3 and every
\* address in the access cache other than the sentinel u64::MAX is in the
\* dirty queue.
C20_CacheHitSafety ==
  /\ access_cache_idx \in 0..3
  /\ \A i \in 0..3 : access_cache[i] # U64_MAX => InQueue(access_cache[i])

\* A page_access has returned early on a hit in a cache that is full and
\* whose replacement index has wrapped around.
C20_Witness ==
  /\ last.op = "page_access"
  /\ last.hit
  /\ \A i \in 0..3 : access_cache[i] # U64_MAX
  /\ access_cache_idx = 1
  /\ Len(dirty) >= 5
  /\ InQueue(last.page)

====
